---- MODULE Spec2Model ----
(***************************************************************************)
(* Report lifecycle and assignment workflow of the institution report API. *)
(* ReportsService (create / assign / unassign / review) runs over the      *)
(* record store (reports, assigned_reports, moderators), the blob store    *)
(* and the e-mail notifier.  Every await of a handler is one step, so the  *)
(* steps of overlapping requests interleave as they do on the event loop.  *)
(* Every collaborator call may fail.                                       *)
(***************************************************************************)
EXTENDS Integers, FiniteSets, Sequences, TLC

\* ---- bounds of the model ----
NumReports == 1      \* report rows the store can hold (and storage paths)
NumUsers   == 2      \* authenticated identities
MaxRaces   == 1      \* times a request starts while another is in flight

AllReports == <<"r1", "r2", "r3", "r4">>
AllUsers   == <<"u1", "u2", "u3", "u4">>
AllPaths   == <<"b1", "b2", "b3", "b4">>

Procs     == {"p1", "p2"}          \* request slots
ReportIds == {AllReports[i] : i \in 1..NumReports}
Users     == {AllUsers[i] : i \in 1..NumUsers}

None   == "none"                   \* no value (unset argument / local)
Absent == "absent"                 \* key missing from the JSON document
Null   == "null"                   \* key present with the value null
Ts     == "ts"                     \* an ISO timestamp (new Date().toISOString())
Now    == "now"                    \* the ISO timestamp taken by a projection

\* values that JavaScript's || skips: undefined, null and the empty string
Falsy(v) == v \in {Absent, Null, ""}

\* ---- outcomes surfaced to the caller ----
NoRes == [kind |-> "none", msg |-> "none"]
Ok == [kind |-> "Ok", msg |-> "ok"]
NotFound == [kind |-> "NotFound", msg |-> "Report not found"]
ConflictOther ==
    [kind |-> "Conflict", msg |-> "This report is already assigned to another moderator"]
ConflictYours ==
    [kind |-> "Conflict", msg |-> "This report is already assigned to you"]
ConflictNotYours ==
    [kind |-> "Conflict", msg |-> "This report is not assigned to you"]
StoreError == [kind |-> "StoreError", msg |-> "store error"]
Internal(m) == [kind |-> "InternalServerError", msg |-> m]
Unprocessable(m) == [kind |-> "UnprocessableEntity", msg |-> m]

VARIABLES
    reports,      \* reports table: report id -> report_content of the stored rows
    columns,      \* reports table: report id -> the other columns of the row
    assignments,  \* assigned_reports table: set of rows
    moderators,   \* moderators table: set of ids
    blobs,        \* storage bucket: set of stored paths
    notified,     \* report ids for which a review e-mail was requested
    calls,        \* per request slot: the request being served
    last,         \* the unassign that was the last request to be answered,
                  \* when it was answered with success
    assignedBy,   \* report id -> the user whose assign was answered with
                  \* success, until an answered request has deleted the
                  \* assignment again
    overlap       \* how many more requests may start while another is in
                  \* flight

vars == <<reports, columns, assignments, moderators, blobs, notified, calls,
          last, assignedBy, overlap>>
store == <<reports, columns, assignments, moderators, blobs, notified>>

\* ---- report_content documents ----
EmptyContent ==
    [status |-> Absent, assigned_to |-> Absent, assigned_at |-> Absent,
     completed_at |-> Absent, pdf_storage_path |-> Absent,
     numer_rspo |-> Absent, review_notes |-> Absent, findings |-> Absent,
     comparisonNotes |-> Absent]

\* ReviewReportDto: a payload without notes and findings
NoPayload ==
    [comparisonNotes |-> Absent, findings |-> Absent, reviewNotes |-> Absent]

\* columns of a reports row outside report_content
NoColumns ==
    [institution_id |-> Absent, reported_institution |-> Absent,
     created_at |-> Absent]

\* CreateReportDto: the institution fields of a request that sends none
NoDto ==
    [institutionId |-> Absent, numerRspo |-> Absent,
     reportedInstitution |-> Absent]

\* dto.reportContent: caller-supplied seed documents
Seeds ==
    { EmptyContent,
      [EmptyContent EXCEPT !.status = "completed",
                           !.pdf_storage_path = "seedpath"] }

NoLast == [rid |-> None, uid |-> None]

\* at is the step that produced the result, faults the collaborator calls of
\* the request that failed, wrote the relations the request has changed, solo
\* whether no other request was in flight while it ran.  rows are the
\* assigned_reports rows a list request has read or the existingAssignment an
\* unassign or review has found, listed the projections a list request
\* returns; dto are the institution fields of a create request and
\* institutionId the institution id it returns; payload is the dto of a
\* review, cn is the comparisonNotes of a review payload, notes the
\* reviewNotes computed from the payload, sent how often the request invoked
\* the notifier and sentNotes the notes it passed.
NoCall ==
    [op |-> "idle", pc |-> "idle", rid |-> None, uid |-> None,
     snap |-> EmptyContent, pdf |-> Absent, seed |-> EmptyContent,
     dto |-> NoDto, institutionId |-> None, payload |-> NoPayload,
     path |-> None, res |-> NoRes, at |-> None, faults |-> {}, wrote |-> {},
     solo |-> TRUE, rows |-> {}, listed |-> {}, cn |-> None, notes |-> None,
     sent |-> 0, sentNotes |-> None]

InFlight(p) == calls[p].pc \notin {"idle", "done"}
Others(p) == Procs \ {p}
Alone(p) == \A o \in Others(p) : ~InFlight(o)

InitStore ==
    /\ reports = [r \in {} |-> EmptyContent]
    /\ columns = [r \in {} |-> NoColumns]
    /\ assignments = {}
    /\ moderators = {}
    /\ blobs = {}
    /\ notified = {}
    /\ calls = [p \in Procs |-> NoCall]
    /\ last = NoLast
    /\ assignedBy = [r \in ReportIds |-> None]

\* Requests arrive one at a time.
Init == InitStore /\ overlap = 0

\* Requests may overlap MaxRaces times.
InitRace == InitStore /\ overlap = MaxRaces

\* No response is waiting to be sent.
NoneDone == \A q \in Procs : calls[q].pc # "done"

\* A request enters the first free slot.
Enter(p, c) ==
    /\ NoneDone
    /\ calls[p].pc = "idle"
    /\ p = "p2" => InFlight("p1")
    /\ ~Alone(p) => overlap > 0
    /\ overlap' = IF Alone(p) THEN overlap ELSE overlap - 1
    /\ calls' = [q \in Procs |->
                   IF q = p THEN [c EXCEPT !.solo = Alone(p)]
                   ELSE IF InFlight(q) THEN [calls[q] EXCEPT !.solo = FALSE]
                   ELSE calls[q]]
    /\ UNCHANGED <<store, last, assignedBy>>

\* One step of request p, leading to the call record c.
Step(p, c) ==
    /\ NoneDone
    /\ calls' = [calls EXCEPT ![p] = c]
    /\ UNCHANGED <<last, assignedBy, overlap>>

\* The response of a finished request is sent and its slot becomes free.
Respond(p) ==
    LET c == calls[p] IN
    /\ c.pc = "done"
    /\ calls' = [calls EXCEPT ![p] = NoCall]
    /\ last' = IF c.op = "unassign" /\ c.res.kind = "Ok"
               THEN [rid |-> c.rid, uid |-> c.uid]
               ELSE NoLast
    /\ assignedBy' =
          IF c.op = "assign" /\ c.res.kind = "Ok"
          THEN [assignedBy EXCEPT ![c.rid] = c.uid]
          ELSE IF \/ c.op = "unassign" /\ c.at = "upd"
                  \/ c.op = "assign" /\ c.at = "comp"
                                     /\ "deleteAssignment" \notin c.faults
          THEN [assignedBy EXCEPT ![c.rid] = None]
          ELSE assignedBy
    /\ UNCHANGED <<store, overlap>>

Goto(c, pc) == [c EXCEPT !.pc = pc]
Return(c, r) == [c EXCEPT !.pc = "done", !.at = c.pc, !.res = r]
Failed(c, s) == [c EXCEPT !.faults = @ \cup {s}]
Wrote(c, t, old, new) == IF old # new THEN [c EXCEPT !.wrote = @ \cup {t}] ELSE c

\* ---- ReportMapper ----
\* variant: content.status is passed through as it is stored
derivedStatus_Stored(content) == content.status

\* status shown by every read path: content.status when it is a known value
derivedStatus(content) ==
    IF content.status \in {"pending", "assigned", "completed"}
    THEN content.status
    ELSE "pending"

\* ---- record store schema ----
\* assigned_reports.report_id is unique: an insert for a report id that
\* already has a row is rejected by the store.
AssignedReportsUnique(rows, reportId) ==
    \A a \in rows : a.report_id # reportId

\* ---- ReportsRepository ----
findById(tbl, reportId) ==
    IF reportId \in DOMAIN tbl THEN {tbl[reportId]} ELSE {}

\* variant: the query never filters by moderator
findAssignment_AnyModerator(rows, reportId, moderatorId) ==
    {a \in rows : a.report_id = reportId}

\* rows matched by the query; the moderator filter is applied only when given
findAssignment(rows, reportId, moderatorId) ==
    {a \in rows : /\ a.report_id = reportId
                  /\ (moderatorId # None => a.moderator_id = moderatorId)}

\* variant: the insert is accepted whatever rows exist
createAssignment_Unchecked(rows, reportId, moderatorId) ==
    rows \cup {[report_id |-> reportId, moderator_id |-> moderatorId]}

\* insert into assigned_reports: the new table, or the unchanged table when the
\* store rejects the row
createAssignment(rows, reportId, moderatorId) ==
    IF AssignedReportsUnique(rows, reportId)
    THEN rows \cup {[report_id |-> reportId, moderator_id |-> moderatorId]}
    ELSE rows

\* variant: the delete matches no row
deleteAssignment_Nothing(rows, reportId) == rows

\* delete from assigned_reports where report_id = reportId
deleteAssignment(rows, reportId) ==
    {a \in rows : a.report_id # reportId}

\* variant: the keys of the new document are merged into the stored one
update_Merged(tbl, reportId, content) ==
    [r \in DOMAIN tbl |->
        IF r = reportId
        THEN [key \in DOMAIN content |->
                 IF content[key] # Absent THEN content[key] ELSE tbl[r][key]]
        ELSE tbl[r]]

\* update reports set report_content = content where report_id = reportId
update(tbl, reportId, content) ==
    [r \in DOMAIN tbl |-> IF r = reportId THEN content ELSE tbl[r]]

\* insert into reports: the store generates the id
NextReportId(tbl) ==
    AllReports[CHOOSE i \in 1..NumReports :
                  /\ AllReports[i] \notin DOMAIN tbl
                  /\ \A j \in 1..(i - 1) : AllReports[j] \in DOMAIN tbl]

create(tbl, content) ==
    [r \in DOMAIN tbl \cup {NextReportId(tbl)} |->
        IF r \in DOMAIN tbl THEN tbl[r] ELSE content]

\* ---- blob store ----
\* variant: the upload reports success and stores nothing
upload_Nothing(bucket, path) == bucket

\* storage.from(bucket).upload(path, ...)
upload(bucket, path) == bucket \cup {path}
\* variant: the blob is left in the bucket
remove_Nothing(bucket, path) == bucket

remove(bucket, path) == bucket \ {path}

\* ---- ReportsService.create ----
CreatesInFlight == Cardinality({p \in Procs : InFlight(p) /\ calls[p].op = "create"})

\* storage paths that are stored, referenced or being written
UsedPaths ==
    blobs \cup {reports[r].pdf_storage_path : r \in DOMAIN reports}
          \cup {calls[p].path : p \in Procs}

\* dto.institutionId || dto.numerRspo
institutionPrefix(dto) ==
    IF ~Falsy(dto.institutionId) THEN dto.institutionId
    ELSE IF ~Falsy(dto.numerRspo) THEN dto.numerRspo
    ELSE Absent

\* first path segment: the prefix, or "unassigned" when there is none
folderName(dto) ==
    IF ~Falsy(institutionPrefix(dto)) THEN institutionPrefix(dto)
    ELSE "unassigned"

\* the day of the request, one value in the model
dateFolder == "2026-01-01"

\* `${folderPath}/${uniqueId}${extension}` for a given first segment
pathIn(folder, uniqueId) ==
    folder \o "/" \o dateFolder \o "/" \o uniqueId \o ".pdf"

storagePath(dto, uniqueId) == pathIn(folderName(dto), uniqueId)

\* values of dto.institutionId and dto.numerRspo
InstitutionIds == {Absent, "", "inst-42"}
NumerRspos == {Absent, "", "123456"}

\* every first segment a storage path can have
Folders ==
    {"unassigned"} \cup {v \in InstitutionIds \cup NumerRspos : ~Falsy(v)}

\* a random id that appears in a path in use
IdUsed(uniqueId) ==
    \E folder \in Folders : pathIn(folder, uniqueId) \in UsedPaths

\* randomUUID(): an id that is not in use
FreshId ==
    AllPaths[CHOOSE i \in 1..NumReports :
                /\ ~IdUsed(AllPaths[i])
                /\ \A j \in 1..(i - 1) : IdUsed(AllPaths[j])]

\* POST /reports: multipart body with the dto, whose reportContent is one of
\* seeds and whose institution fields are one of dtos, and the optional pdf
\* part
CreateRequest(p, seeds, dtos) ==
    /\ Cardinality(DOMAIN reports) + CreatesInFlight < NumReports
    /\ \E i \in 1..NumReports : ~IdUsed(AllPaths[i])
    /\ \E pdf \in {Absent, "empty", "bytes"}, seed \in seeds, dto \in dtos :
          Enter(p, [NoCall EXCEPT !.op = "create", !.pc = "c_upload",
                                  !.pdf = pdf, !.seed = seed, !.dto = dto,
                                  !.path = storagePath(dto, FreshId)])

BeginCreate(p) == CreateRequest(p, Seeds, {NoDto})

\* if (!pdf): the attachment check of create
MissingPdf(pdf) == pdf = Absent

\* variant: the upload error is ignored
AfterUpload_Ignored(c, ok) ==
    Goto(IF ok THEN c ELSE Failed(c, "upload"), "c_insert")

\* if (error) throw InternalServerErrorException, else go on to the insert
AfterUpload(c, ok) ==
    IF ok THEN Goto(c, "c_insert")
    ELSE Return(Failed(c, "upload"), Internal("Failed to upload PDF"))

\* validation, storage path and the upload to the bucket
CreateUpload(p) ==
    LET c == calls[p] IN
    /\ c.op = "create" /\ c.pc = "c_upload"
    /\ IF MissingPdf(c.pdf)
       THEN /\ Step(p, Return(c, Unprocessable("A PDF file is required.")))
            /\ UNCHANGED store
       ELSE \E ok \in BOOLEAN :
              /\ blobs' = IF ok THEN upload(blobs, c.path) ELSE blobs
              /\ Step(p, AfterUpload(Wrote(c, "blobs", blobs, blobs'), ok))
              /\ UNCHANGED <<reports, columns, assignments, moderators, notified>>

\* variant: the keys of the seed are spread last and win
CreateContent_SeedLast(seed, pdfPath, numerRspo) ==
    [seed EXCEPT !.pdf_storage_path =
                     IF seed.pdf_storage_path # Absent THEN @ ELSE pdfPath,
                 !.numer_rspo = IF seed.numer_rspo # Absent THEN @ ELSE numerRspo]

\* report_content written by create: the seed overlaid with the storage path
\* and the registry number (a key whose value is undefined is not stored)
CreateContent(seed, pdfPath, numerRspo) ==
    [seed EXCEPT !.pdf_storage_path = pdfPath, !.numer_rspo = numerRspo]

\* variant: the registry number is preferred
resolvedInstitutionId_RspoFirst(dto) ==
    IF ~Falsy(dto.numerRspo) THEN dto.numerRspo
    ELSE IF ~Falsy(dto.institutionId) THEN dto.institutionId
    ELSE IF ~Falsy(dto.reportedInstitution) THEN dto.reportedInstitution
    ELSE Absent

\* dto.institutionId || dto.numerRspo || dto.reportedInstitution || undefined
resolvedInstitutionId(dto) ==
    IF ~Falsy(dto.institutionId) THEN dto.institutionId
    ELSE IF ~Falsy(dto.numerRspo) THEN dto.numerRspo
    ELSE IF ~Falsy(dto.reportedInstitution) THEN dto.reportedInstitution
    ELSE Absent

\* the columns of the row create inserts; created_at is not part of the
\* insert and is filled in by the store
CreateColumns(dto, createdAt) ==
    [institution_id |-> resolvedInstitutionId(dto),
     reported_institution |-> dto.reportedInstitution,
     created_at |-> createdAt]

\* repository.create inside the try block; the store gives the row one of
\* createdAts as created_at
CreateInsertWith(p, createdAts) ==
    LET c == calls[p] IN
    /\ c.op = "create" /\ c.pc = "c_insert"
    /\ \E ok \in BOOLEAN, createdAt \in createdAts :
          IF ok
          THEN /\ reports' = create(reports,
                                     CreateContent(c.seed, c.path, c.dto.numerRspo))
               /\ columns' = create(columns, CreateColumns(c.dto, createdAt))
               /\ Step(p, Return([Wrote(c, "reports", reports, reports')
                                    EXCEPT !.rid = NextReportId(reports),
                                           !.institutionId =
                                               resolvedInstitutionId(c.dto)], Ok))
               /\ UNCHANGED <<assignments, moderators, blobs, notified>>
          ELSE /\ Step(p, Goto(Failed(c, "insert"), "c_comp"))
               /\ UNCHANGED store

\* the store fills created_at with the time of the insert
CreateInsert(p) == CreateInsertWith(p, {Ts})

\* catch block of create: remove the uploaded blob, then surface the error.
\* storage.remove reports a failure in its result, which is not inspected.
CreateCompensate(p) ==
    LET c == calls[p] IN
    /\ c.op = "create" /\ c.pc = "c_comp"
    /\ \E ok \in BOOLEAN :
          /\ blobs' = IF ok THEN remove(blobs, c.path) ELSE blobs
          /\ Step(p, Return(IF ok THEN Wrote(c, "blobs", blobs, blobs')
                                  ELSE Failed(c, "remove"),
                            Unprocessable("Could not save report")))
          /\ UNCHANGED <<reports, columns, assignments, moderators, notified>>

\* ---- error handling shared by assign, unassign and review ----
\* variant: every error is replaced by an internal server error
OuterCatch_WrapAll(op, err) ==
    Internal("Failed to " \o op \o " report")

\* outer catch block: NotFound and Conflict are rethrown, anything else is
\* replaced by an internal server error
OuterCatch(op, err) ==
    IF err.kind \in {"NotFound", "Conflict"}
    THEN err
    ELSE Internal("Failed to " \o op \o " report")

\* catch block of the list operations: every error becomes an internal
\* server error
ListCatch(op) ==
    Internal(IF op = "listAssigned" THEN "Failed to fetch assigned reports"
             ELSE IF op = "listCompleted" THEN "Failed to fetch completed reports"
             ELSE IF op = "listAvailable" THEN "Failed to fetch available reports"
             ELSE "Failed to fetch reports")

\* variant: every operation wraps its errors as the list operations do
Catch_AsList(op, err) == ListCatch(op)

\* the catch block of the operation that is running
Catch(op, err) ==
    IF op \in {"assign", "unassign", "review"}
    THEN OuterCatch(op, err)
    ELSE ListCatch(op)

BeginWorkflow(p, op) ==
    \E r \in ReportIds, u \in Users :
        Enter(p, [NoCall EXCEPT !.op = op, !.pc = "load", !.rid = r, !.uid = u])

\* const report = await this.repository.findById(reportId)
LoadReport(p, op) ==
    LET c == calls[p] IN
    /\ c.op = op /\ c.pc = "load"
    /\ \E ok \in BOOLEAN :
          Step(p, IF ~ok
                  THEN Return(Failed(c, "findById"), Catch(op, StoreError))
                  ELSE IF findById(reports, c.rid) = {}
                  THEN Return(c, Catch(op, NotFound))
                  ELSE Goto([c EXCEPT !.snap = reports[c.rid]], "modFind"))
    /\ UNCHANGED store

\* findOrCreateModerator, first query: select the moderator by id
ModeratorFind(p, op) ==
    LET c == calls[p] IN
    /\ c.op = op /\ c.pc = "modFind"
    /\ \E ok \in BOOLEAN :
          Step(p, IF ~ok
                  THEN Return(Failed(c, "findModerator"), Catch(op, StoreError))
                  ELSE IF c.uid \in moderators
                  THEN Goto(c, "check")
                  ELSE Goto(c, "modIns"))
    /\ UNCHANGED store

\* findOrCreateModerator, second query: insert {id: userId}; a duplicate key
\* is an error of the insert like any other
ModeratorInsert(p, op) ==
    LET c == calls[p] IN
    /\ c.op = op /\ c.pc = "modIns"
    /\ \E ok \in BOOLEAN :
          IF ~ok
          THEN /\ Step(p, Return(Failed(c, "insertModerator"),
                                 Catch(op, StoreError)))
               /\ UNCHANGED store
          ELSE IF c.uid \in moderators
          THEN /\ Step(p, Return(c, Catch(op, StoreError)))
               /\ UNCHANGED store
          ELSE /\ moderators' = moderators \cup {c.uid}
               /\ Step(p, Goto(Wrote(c, "moderators", moderators, moderators'),
                               "check"))
               /\ UNCHANGED <<reports, columns, assignments, blobs, notified>>

\* ---- ReportsService.assignReportToUser ----
BeginAssign(p) == BeginWorkflow(p, "assign")
AssignLoad(p) == LoadReport(p, "assign")
AssignModeratorFind(p) == ModeratorFind(p, "assign")
AssignModeratorInsert(p) == ModeratorInsert(p, "assign")

\* variant: the comparison of the moderator ids is inverted
ExistingAssignmentConflict_Inverted(existingModeratorId, moderatorId) ==
    IF existingModeratorId = moderatorId THEN ConflictOther ELSE ConflictYours

\* if (existingAssignment): which conflict the caller is told
ExistingAssignmentConflict(existingModeratorId, moderatorId) ==
    IF existingModeratorId # moderatorId THEN ConflictOther ELSE ConflictYours

\* findAssignment(reportId) without a moderator filter, then the conflict
\* check; maybeSingle() is an error when more than one row matches
AssignCheck(p) ==
    LET c == calls[p]
        rows == findAssignment(assignments, c.rid, None)
    IN
    /\ c.op = "assign" /\ c.pc = "check"
    /\ \E ok \in BOOLEAN :
          Step(p, IF ~ok
                  THEN Return(Failed(c, "findAssignment"),
                              OuterCatch("assign", StoreError))
                  ELSE IF Cardinality(rows) > 1
                  THEN Return(c, OuterCatch("assign", StoreError))
                  ELSE IF rows # {}
                  THEN Return(c, OuterCatch("assign",
                         ExistingAssignmentConflict(
                             (CHOOSE a \in rows : TRUE).moderator_id, c.uid)))
                  ELSE Goto(c, "ins"))
    /\ UNCHANGED store

\* catch block around createAssignment
CreateAssignmentFailure == Internal("Failed to assign report")

\* createAssignment inside its try block
AssignInsert(p) ==
    LET c == calls[p]
        rows == createAssignment(assignments, c.rid, c.uid)
    IN
    /\ c.op = "assign" /\ c.pc = "ins"
    /\ \E ok \in BOOLEAN :
          IF ~ok
          THEN /\ Step(p, Return(Failed(c, "createAssignment"),
                                 OuterCatch("assign", CreateAssignmentFailure)))
               /\ UNCHANGED store
          ELSE IF rows = assignments
          THEN /\ Step(p, Return(c, OuterCatch("assign", CreateAssignmentFailure)))
               /\ UNCHANGED store
          ELSE /\ assignments' = rows
               /\ Step(p, Goto(Wrote(c, "assignments", assignments, assignments'),
                               "upd"))
               /\ UNCHANGED <<reports, columns, moderators, blobs, notified>>

\* variant: the content is replaced, not merged
AssignedContent_Replaced(currentContent, userId) ==
    [EmptyContent EXCEPT !.status = "assigned", !.assigned_to = userId,
                         !.assigned_at = Ts]

\* updatedContent of assignReportToUser, built on the content read at the
\* start of the request
AssignedContent(currentContent, userId) ==
    [currentContent EXCEPT !.status = "assigned", !.assigned_to = userId,
                           !.assigned_at = Ts]

\* repository.update inside its try block
AssignUpdate(p) ==
    LET c == calls[p] IN
    /\ c.op = "assign" /\ c.pc = "upd"
    /\ \E ok \in BOOLEAN :
          IF ok
          THEN /\ reports' = update(reports, c.rid, AssignedContent(c.snap, c.uid))
               /\ Step(p, Return(Wrote(c, "reports", reports, reports'), Ok))
               /\ UNCHANGED <<columns, assignments, moderators, blobs, notified>>
          ELSE /\ Step(p, Goto(Failed(c, "update"), "comp"))
               /\ UNCHANGED store

\* catch block of the update: delete the assignment that was just created
AssignCompensate(p) ==
    LET c == calls[p] IN
    /\ c.op = "assign" /\ c.pc = "comp"
    /\ \E ok \in BOOLEAN :
          IF ok
          THEN /\ assignments' = deleteAssignment(assignments, c.rid)
               /\ Step(p, Return(Wrote(c, "assignments", assignments, assignments'),
                                 OuterCatch("assign",
                                    Internal("Failed to update report status"))))
               /\ UNCHANGED <<reports, columns, moderators, blobs, notified>>
          ELSE /\ Step(p, Return(Failed(c, "deleteAssignment"),
                                 OuterCatch("assign", StoreError)))
               /\ UNCHANGED store

\* ---- ReportsService.unassignReportFromUser ----
BeginUnassign(p) == BeginWorkflow(p, "unassign")
UnassignLoad(p) == LoadReport(p, "unassign")
UnassignModeratorFind(p) == ModeratorFind(p, "unassign")
UnassignModeratorInsert(p) == ModeratorInsert(p, "unassign")

\* variant: the ownership check never rejects
NotAssignedToCaller_Never(rows) == FALSE

\* if (!existingAssignment)
NotAssignedToCaller(rows) == rows = {}

\* findAssignment(reportId, moderator.id) and the ownership check of
\* unassign and review
OwnershipCheck(p, op, next) ==
    LET c == calls[p]
        rows == findAssignment(assignments, c.rid, c.uid)
    IN
    /\ c.op = op /\ c.pc = "check"
    /\ \E ok \in BOOLEAN :
          Step(p, IF ~ok
                  THEN Return(Failed(c, "findAssignment"), OuterCatch(op, StoreError))
                  ELSE IF Cardinality(rows) > 1
                  THEN Return(c, OuterCatch(op, StoreError))
                  ELSE IF NotAssignedToCaller(rows)
                  THEN Return(c, OuterCatch(op, ConflictNotYours))
                  ELSE Goto([c EXCEPT !.rows = rows], next))
    /\ UNCHANGED store

UnassignCheck(p) == OwnershipCheck(p, "unassign", "del")

\* await this.repository.deleteAssignment(reportId)
UnassignDelete(p) ==
    LET c == calls[p] IN
    /\ c.op = "unassign" /\ c.pc = "del"
    /\ \E ok \in BOOLEAN :
          IF ok
          THEN /\ assignments' = deleteAssignment(assignments, c.rid)
               /\ Step(p, Goto(Wrote(c, "assignments", assignments, assignments'),
                               "upd"))
               /\ UNCHANGED <<reports, columns, moderators, blobs, notified>>
          ELSE /\ Step(p, Return(Failed(c, "deleteAssignment"),
                                 OuterCatch("unassign", StoreError)))
               /\ UNCHANGED store

\* variant: the attachment pointer is cleared with the owner
UnassignedContent_PathCleared(currentContent) ==
    [currentContent EXCEPT !.status = "pending", !.assigned_to = Null,
                           !.assigned_at = Null,
                           !.pdf_storage_path = Null]

\* variant: the owner stays in the content
UnassignedContent_KeepOwner(currentContent) ==
    [currentContent EXCEPT !.status = "pending"]

\* updatedContent of unassignReportFromUser
UnassignedContent(currentContent) ==
    [currentContent EXCEPT !.status = "pending", !.assigned_to = Null,
                           !.assigned_at = Null]

UnassignUpdate(p) ==
    LET c == calls[p] IN
    /\ c.op = "unassign" /\ c.pc = "upd"
    /\ \E ok \in BOOLEAN :
          IF ok
          THEN /\ reports' = update(reports, c.rid, UnassignedContent(c.snap))
               /\ Step(p, Return(Wrote(c, "reports", reports, reports'), Ok))
               /\ UNCHANGED <<columns, assignments, moderators, blobs, notified>>
          ELSE /\ Step(p, Return(Failed(c, "update"),
                                 OuterCatch("unassign",
                                    Internal("Failed to update report status"))))
               /\ UNCHANGED store

\* ---- ReportsService.reviewReport ----
BeginReview(p) == BeginWorkflow(p, "review")
ReviewLoad(p) == LoadReport(p, "review")
ReviewModeratorFind(p) == ModeratorFind(p, "review")
ReviewModeratorInsert(p) == ModeratorInsert(p, "review")
ReviewCheck(p) == OwnershipCheck(p, "review", "upd")


\* String.prototype.trim on the note values of the model
trim(s) ==
    IF s = " " THEN "" ELSE IF s = " ok " THEN "ok" ELSE s

\* variant: the legacy notes are preferred
ReviewNotes_LegacyFirst(comparisonNotes, legacyNotes) ==
    IF ~Falsy(trim(legacyNotes)) THEN trim(legacyNotes)
    ELSE IF ~Falsy(trim(comparisonNotes)) THEN trim(comparisonNotes)
    ELSE Null

\* dto.reportContent?.comparisonNotes?.trim() || dto.reviewNotes?.trim() || null
ReviewNotes(comparisonNotes, legacyNotes) ==
    IF ~Falsy(trim(comparisonNotes)) THEN trim(comparisonNotes)
    ELSE IF ~Falsy(trim(legacyNotes)) THEN trim(legacyNotes)
    ELSE Null

\* ReviewReportDto: the payloads with notes and findings; findings is an
\* array, and an empty array is not falsy
NotesPayloads ==
    [comparisonNotes : {Absent, "", " ", "ok", " ok "},
     findings : {Absent, "[]", "[f1]"},
     reviewNotes : {Absent, "legacy"}]

\* variant: findings and comparisonNotes are taken from the payload whether
\* or not it carries them
ReviewedContent_Overwritten(currentContent, dto) ==
    [currentContent EXCEPT
        !.status = "completed",
        !.completed_at = Ts,
        !.review_notes = ReviewNotes(dto.comparisonNotes, dto.reviewNotes),
        !.findings = dto.findings,
        !.comparisonNotes = dto.comparisonNotes]

\* updatedContent of reviewReport (a key whose value is undefined is not
\* stored)
ReviewedContent(currentContent, dto) ==
    [currentContent EXCEPT
        !.status = "completed",
        !.completed_at = Ts,
        !.review_notes = ReviewNotes(dto.comparisonNotes, dto.reviewNotes),
        !.findings = IF ~Falsy(dto.findings) THEN dto.findings ELSE @,
        !.comparisonNotes =
            IF ~Falsy(dto.comparisonNotes) THEN dto.comparisonNotes ELSE @]

\* the review notes and the merge of the payload into the content
ReviewUpdateWith(p, payloads) ==
    LET c == calls[p] IN
    /\ c.op = "review" /\ c.pc = "upd"
    /\ \E ok \in BOOLEAN, dto \in payloads :
          IF ok
          THEN /\ reports' = update(reports, c.rid, ReviewedContent(c.snap, dto))
               /\ Step(p, Goto([Wrote(c, "reports", reports, reports')
                                  EXCEPT !.payload = dto,
                                         !.cn = dto.comparisonNotes,
                                         !.notes = ReviewNotes(dto.comparisonNotes,
                                                               dto.reviewNotes)],
                               "modDetails"))
               /\ UNCHANGED <<columns, assignments, moderators, blobs, notified>>
          ELSE /\ Step(p, Return(Failed(c, "update"),
                                 OuterCatch("review",
                                    Internal("Failed to update report status"))))
               /\ UNCHANGED store

ReviewUpdate(p) == ReviewUpdateWith(p, {NoPayload})

\* moderatorsRepository.findById(moderator.id): throws on a query error
ReviewModeratorDetails(p) ==
    LET c == calls[p] IN
    /\ c.op = "review" /\ c.pc = "modDetails"
    /\ \E ok \in BOOLEAN :
          Step(p, IF ok THEN Goto(c, "email")
                  ELSE Return(Failed(c, "moderatorDetails"),
                              OuterCatch("review", StoreError)))
    /\ UNCHANGED store

\* reviewNotes: reviewNotes || undefined
NotifierNotes(reviewNotes) ==
    IF Falsy(reviewNotes) THEN Absent ELSE reviewNotes

\* variant: a failure to send is thrown to reviewReport
EmailOutcome_Thrown(ok) ==
    IF ok THEN Ok ELSE OuterCatch("review", StoreError)

\* try / catch around resend.emails.send: the failure is logged, the call
\* returns normally and review goes on to its return statement
EmailOutcome(ok) == Ok

\* emailService.sendReportReviewEmail, then the return of reviewReport
ReviewEmail(p) ==
    LET c == calls[p] IN
    /\ c.op = "review" /\ c.pc = "email"
    /\ notified' = notified \cup {c.rid}
    /\ \E ok \in BOOLEAN :
          Step(p, Return([Wrote(IF ok THEN c ELSE Failed(c, "email"),
                                "notified", notified, notified')
                            EXCEPT !.sent = @ + 1,
                                   !.sentNotes = NotifierNotes(c.notes)],
                         EmailOutcome(ok)))
    /\ UNCHANGED <<reports, columns, assignments, moderators, blobs>>

\* ---- ReportMapper.toResponseDto ----
\* reportContent.assigned_to || assignedUserId || undefined
projectedAssignedTo(content, assignedUserId) ==
    IF ~Falsy(content.assigned_to) THEN content.assigned_to
    ELSE IF assignedUserId # None THEN assignedUserId
    ELSE Absent

\* isNaN(new Date(dateValue).getTime())
InvalidDate(dateValue) == dateValue = "not-a-date"

\* new Date(dateValue).toISOString() on the parseable values of the model
toISOString(dateValue) ==
    IF dateValue = "2024-01-15" THEN "2024-01-15T00:00:00.000Z" ELSE dateValue

\* variant: a value that cannot be parsed becomes the current time
parseDate_OrNow(dateValue) ==
    IF Falsy(dateValue) THEN Now
    ELSE IF InvalidDate(dateValue) THEN Now
    ELSE toISOString(dateValue)

\* parseDate of ReportMapper: undefined for a falsy or unparseable value
parseDate(dateValue) ==
    IF Falsy(dateValue) THEN Absent
    ELSE IF InvalidDate(dateValue) THEN Absent
    ELSE toISOString(dateValue)

\* entity.created_at ? parseDate(entity.created_at) || now : now
projectedCreatedAt(created_at) ==
    IF Falsy(created_at) THEN Now
    ELSE IF ~Falsy(parseDate(created_at)) THEN parseDate(created_at)
    ELSE Now

\* parseDate of ModeratorMapper: the current time for a falsy or unparseable
\* value
moderatorCreatedAt(created_at) ==
    IF Falsy(created_at) THEN Now
    ELSE IF InvalidDate(created_at) THEN Now
    ELSE toISOString(created_at)

\* parseDate(reportContent.assigned_at) ||
\* (assignment ? parseDate(assignment.assigned_at) : undefined) || undefined;
\* assignment is the set of rows the caller's assignmentMap holds for the
\* report, and every row carries the timestamp it was inserted with
projectedAssignedAt(content, assignment) ==
    IF ~Falsy(parseDate(content.assigned_at)) THEN parseDate(content.assigned_at)
    ELSE IF assignment # {} THEN Ts
    ELSE Absent

\* entity is the row: its id, its columns and its report_content
toResponseDto(id, cols, content, assignment, assignedUserId) ==
    [id |-> id,
     status |-> derivedStatus(content),
     assignedTo |-> projectedAssignedTo(content, assignedUserId),
     assignedAt |-> projectedAssignedAt(content, assignment),
     completedAt |-> parseDate(content.completed_at),
     createdAt |-> projectedCreatedAt(cols.created_at)]

\* ---- ReportsRepository: list queries ----
findAll(tbl) == DOMAIN tbl
findByIds(tbl, ids) == ids \cap DOMAIN tbl
\* variant: the rows are not filtered by moderator
findAssignmentsByModeratorId_All(rows, moderatorId) == rows

findAssignmentsByModeratorId(rows, moderatorId) ==
    {a \in rows : a.moderator_id = moderatorId}
findAllAssignedReportIds(rows) == {a.report_id : a \in rows}

\* ---- ReportsService: list operations ----
\* findAssignedByUserId / findCompletedByUserId after the moderator lookup:
\* the reports of the moderator's rows, projected and filtered by status
ModeratorReports(rows, tbl, cols, userId, status) ==
    {d \in {toResponseDto(r, cols[r], tbl[r],
                          {a \in rows : a.report_id = r}, userId) :
               r \in findByIds(tbl, {a.report_id : a \in rows})} :
        d.status = status}

\* filter of findAvailable over the projections of all reports
AvailableReports(assignedReportIds, tbl, cols) ==
    {d \in {toResponseDto(r, cols[r], tbl[r], {}, None) : r \in findAll(tbl)} :
        /\ d.id \notin assignedReportIds
        /\ (Falsy(d.assignedTo) \/ d.status = "pending")}

MineOps == {"listAssigned", "listCompleted"}
StatusOf(op) == IF op = "listAssigned" THEN "assigned" ELSE "completed"

\* GET /reports/assigned and GET /reports/completed for the calling user
BeginListMine(p) ==
    \E op \in MineOps, u \in Users :
        Enter(p, [NoCall EXCEPT !.op = op, !.pc = "modFind", !.uid = u])

\* findOrCreateModerator(userId) of the list operations
ListModeratorFind(p) == \E op \in MineOps : ModeratorFind(p, op)
ListModeratorInsert(p) == \E op \in MineOps : ModeratorInsert(p, op)

\* findAssignmentsByModeratorId and the early return of the empty list
ListRows(p) ==
    LET c == calls[p]
        rows == findAssignmentsByModeratorId(assignments, c.uid)
    IN
    /\ c.op \in MineOps /\ c.pc = "check"
    /\ \E ok \in BOOLEAN :
          Step(p, IF ~ok
                  THEN Return(Failed(c, "findAssignments"), Catch(c.op, StoreError))
                  ELSE IF rows = {}
                  THEN Return(c, Ok)
                  ELSE Goto([c EXCEPT !.rows = rows], "l_reports"))
    /\ UNCHANGED store

\* findByIds, projection and the status filter
ListReports(p) ==
    LET c == calls[p] IN
    /\ c.op \in MineOps /\ c.pc = "l_reports"
    /\ \E ok \in BOOLEAN :
          Step(p, IF ~ok
                  THEN Return(Failed(c, "findByIds"), Catch(c.op, StoreError))
                  ELSE Return([c EXCEPT !.listed =
                                  ModeratorReports(c.rows, reports, columns,
                                                   c.uid, StatusOf(c.op))], Ok))
    /\ UNCHANGED store

\* GET /reports/available
BeginListAvailable(p) ==
    Enter(p, [NoCall EXCEPT !.op = "listAvailable", !.pc = "la_ids"])

\* findAllAssignedReportIds
ListAvailableIds(p) ==
    LET c == calls[p] IN
    /\ c.op = "listAvailable" /\ c.pc = "la_ids"
    /\ \E ok \in BOOLEAN :
          Step(p, IF ~ok
                  THEN Return(Failed(c, "findAllAssignedReportIds"),
                              Catch(c.op, StoreError))
                  ELSE Goto([c EXCEPT !.rows = assignments], "la_all"))
    /\ UNCHANGED store

\* findAll, projection and the filter
ListAvailableReports(p) ==
    LET c == calls[p] IN
    /\ c.op = "listAvailable" /\ c.pc = "la_all"
    /\ \E ok \in BOOLEAN :
          Step(p, IF ~ok
                  THEN Return(Failed(c, "findAll"), Catch(c.op, StoreError))
                  ELSE Return([c EXCEPT !.listed =
                                  AvailableReports(findAllAssignedReportIds(c.rows),
                                                   reports, columns)], Ok))
    /\ UNCHANGED store

\* GET /reports
BeginListAll(p) ==
    Enter(p, [NoCall EXCEPT !.op = "listAll", !.pc = "all"])

\* findAll and the projection of every report
ListAllReports(p) ==
    LET c == calls[p] IN
    /\ c.op = "listAll" /\ c.pc = "all"
    /\ \E ok \in BOOLEAN :
          Step(p, IF ~ok
                  THEN Return(Failed(c, "findAll"), Catch(c.op, StoreError))
                  ELSE Return([c EXCEPT !.listed =
                                  {toResponseDto(r, columns[r], reports[r], {}, None) :
                                      r \in findAll(reports)}], Ok))
    /\ UNCHANGED store

\* what the list operations return in the current state when no step fails
listAvailable ==
    AvailableReports(findAllAssignedReportIds(assignments), reports, columns)
listAssignedTo(userId) ==
    ModeratorReports(findAssignmentsByModeratorId(assignments, userId),
                     reports, columns, userId, "assigned")
listCompletedBy(userId) ==
    ModeratorReports(findAssignmentsByModeratorId(assignments, userId),
                     reports, columns, userId, "completed")

\* ---- requests with workflow keys in the seed and notes in the payload ----
\* dto.reportContent that carries workflow keys of its own
WorkflowSeeds ==
    { [EmptyContent EXCEPT !.status = "assigned", !.assigned_to = "ux"],
      [EmptyContent EXCEPT !.status = "archived"],
      [EmptyContent EXCEPT !.status = ""],
      [EmptyContent EXCEPT !.findings = "[f0]", !.comparisonNotes = "old"] }

BeginCreateSeeded(p) == CreateRequest(p, WorkflowSeeds, {NoDto})
ReviewUpdateNotes(p) == ReviewUpdateWith(p, NotesPayloads)

\* ---- the system ----
Next ==
    \E p \in Procs :
        \/ BeginCreate(p)
        \/ CreateUpload(p)
        \/ CreateInsert(p)
        \/ CreateCompensate(p)
        \/ BeginAssign(p)
        \/ AssignLoad(p)
        \/ AssignModeratorFind(p)
        \/ AssignModeratorInsert(p)
        \/ AssignCheck(p)
        \/ AssignInsert(p)
        \/ AssignUpdate(p)
        \/ AssignCompensate(p)
        \/ BeginUnassign(p)
        \/ UnassignLoad(p)
        \/ UnassignModeratorFind(p)
        \/ UnassignModeratorInsert(p)
        \/ UnassignCheck(p)
        \/ UnassignDelete(p)
        \/ UnassignUpdate(p)
        \/ BeginReview(p)
        \/ ReviewLoad(p)
        \/ ReviewModeratorFind(p)
        \/ ReviewModeratorInsert(p)
        \/ ReviewCheck(p)
        \/ ReviewUpdate(p)
        \/ ReviewModeratorDetails(p)
        \/ ReviewEmail(p)
        \/ Respond(p)

\* requests served one at a time
Spec == Init /\ [][Next]_vars

\* requests that may overlap
SpecRace == InitRace /\ [][Next]_vars

\* the write operations together with the list operations, seeds that carry
\* workflow keys and review payloads that carry notes
NextReads ==
    \/ Next
    \/ \E p \in Procs :
          \/ BeginCreateSeeded(p)
          \/ ReviewUpdateNotes(p)
          \/ BeginListMine(p)
          \/ ListModeratorFind(p)
          \/ ListModeratorInsert(p)
          \/ ListRows(p)
          \/ ListReports(p)
          \/ BeginListAvailable(p)
          \/ ListAvailableIds(p)
          \/ ListAvailableReports(p)
          \/ BeginListAll(p)
          \/ ListAllReports(p)

\* requests served one at a time, reads included
SpecReads == Init /\ [][NextReads]_vars

\* ---- create requests that carry institution fields ----
InstitutionDtos ==
    [institutionId : InstitutionIds, numerRspo : NumerRspos,
     reportedInstitution : {Absent, "Some Institution"}]

BeginCreateInstitution(p) == CreateRequest(p, {EmptyContent}, InstitutionDtos)

NextCreate ==
    \/ Next
    \/ \E p \in Procs : BeginCreateInstitution(p)

\* requests served one at a time, creates with institution fields included
SpecCreate == Init /\ [][NextCreate]_vars

\* ---- rows with timestamps that are missing or cannot be parsed ----
\* dto.reportContent that carries timestamps of its own
DatedSeeds ==
    { [EmptyContent EXCEPT !.status = "completed", !.completed_at = "not-a-date"],
      [EmptyContent EXCEPT !.status = "completed", !.completed_at = "2024-01-15"],
      [EmptyContent EXCEPT !.status = "assigned", !.assigned_at = "not-a-date"] }

BeginCreateDated(p) == CreateRequest(p, DatedSeeds, {NoDto})

\* rows whose created_at is null or not a timestamp
CreateInsertLegacy(p) == CreateInsertWith(p, {Absent, "not-a-date", "2024-01-15"})

NextDates ==
    \/ Next
    \/ \E p \in Procs :
          \/ BeginCreateDated(p)
          \/ CreateInsertLegacy(p)
          \/ BeginListMine(p)
          \/ ListModeratorFind(p)
          \/ ListModeratorInsert(p)
          \/ ListRows(p)
          \/ ListReports(p)
          \/ BeginListAvailable(p)
          \/ ListAvailableIds(p)
          \/ ListAvailableReports(p)
          \/ BeginListAll(p)
          \/ ListAllReports(p)

\* requests served one at a time, reads and rows with odd timestamps included
SpecDates == Init /\ [][NextDates]_vars

\* ---- assign and unassign on stored reports, overlapping more often ----
\* the rows of reports created before the first request of a run, without
\* seed and institution fields
StoredContent(i) ==
    CreateContent(EmptyContent, storagePath(NoDto, AllPaths[i]), Absent)

InitWorkflow ==
    /\ reports = [r \in ReportIds |->
                     StoredContent(CHOOSE i \in 1..NumReports : AllReports[i] = r)]
    /\ columns = [r \in ReportIds |-> CreateColumns(NoDto, Ts)]
    /\ blobs = {StoredContent(i).pdf_storage_path : i \in 1..NumReports}
    /\ assignments = {}
    /\ moderators = {}
    /\ notified = {}
    /\ calls = [p \in Procs |-> NoCall]
    /\ last = NoLast
    /\ assignedBy = [r \in ReportIds |-> None]
    /\ overlap = MaxRaces + 1

NextWorkflow ==
    \E p \in Procs :
        \/ BeginAssign(p)
        \/ AssignLoad(p)
        \/ AssignModeratorFind(p)
        \/ AssignModeratorInsert(p)
        \/ AssignCheck(p)
        \/ AssignInsert(p)
        \/ AssignUpdate(p)
        \/ AssignCompensate(p)
        \/ BeginUnassign(p)
        \/ UnassignLoad(p)
        \/ UnassignModeratorFind(p)
        \/ UnassignModeratorInsert(p)
        \/ UnassignCheck(p)
        \/ UnassignDelete(p)
        \/ UnassignUpdate(p)
        \/ Respond(p)

\* assign and unassign requests on the stored reports; requests may start
\* MaxRaces + 1 times while another is in flight
SpecWorkflow == InitWorkflow /\ [][NextWorkflow]_vars

\* ---- ModeratorsService.delete ----
\* ModeratorsRepository.findById: the moderator with this id, if any
findModeratorById(tbl, moderatorId) == {m \in tbl : m = moderatorId}

\* ModeratorsRepository.delete: delete from moderators where id = moderatorId
delete(tbl, moderatorId) == tbl \ {moderatorId}

\* catch block of ModeratorsService.delete: NotFound is rethrown, anything
\* else is replaced by an internal server error
DeleteCatch(err) ==
    IF err.kind = "NotFound" THEN err
    ELSE Internal("Failed to delete moderator")

ModeratorNotFound == [kind |-> "NotFound", msg |-> "Moderator not found"]

\* DELETE /moderators/:uuid
BeginDelete(p) ==
    \E u \in Users :
        Enter(p, [NoCall EXCEPT !.op = "delete", !.pc = "d_find", !.uid = u])

\* const existing = await this.repository.findById(uuid)
DeleteFind(p) ==
    LET c == calls[p] IN
    /\ c.op = "delete" /\ c.pc = "d_find"
    /\ \E ok \in BOOLEAN :
          Step(p, IF ~ok
                  THEN Return(Failed(c, "findModerator"), DeleteCatch(StoreError))
                  ELSE IF findModeratorById(moderators, c.uid) = {}
                  THEN Return(c, DeleteCatch(ModeratorNotFound))
                  ELSE Goto(c, "d_del"))
    /\ UNCHANGED store

\* await this.repository.delete(uuid)
DeleteRemove(p) ==
    LET c == calls[p] IN
    /\ c.op = "delete" /\ c.pc = "d_del"
    /\ \E ok \in BOOLEAN :
          IF ok
          THEN /\ moderators' = delete(moderators, c.uid)
               /\ Step(p, Return(Wrote(c, "moderators", moderators, moderators'),
                                 Ok))
               /\ UNCHANGED <<reports, columns, assignments, blobs, notified>>
          ELSE /\ Step(p, Return(Failed(c, "deleteModerator"),
                                 DeleteCatch(StoreError)))
               /\ UNCHANGED store

NextModerators ==
    \/ Next
    \/ \E p \in Procs :
          \/ BeginDelete(p)
          \/ DeleteFind(p)
          \/ DeleteRemove(p)

\* requests served one at a time, deletions of moderators included
SpecModerators == Init /\ [][NextModerators]_vars

\* ---- properties ----

\* C1: at most one Assignment row exists per report id in every reachable
\* state, whatever assign and unassign calls have run and however their steps
\* interleave.
AtMostOneAssignmentPerReport ==
    \A r \in ReportIds :
        Cardinality({a \in assignments : a.report_id = r}) <= 1

\* C1 case: an assign that overlapped another request passed the check and
\* had its insert rejected, the report being held by another moderator.
OverlappingAssignRejected ==
    \E p \in Procs :
        LET c == calls[p] IN
        /\ c.pc = "done" /\ c.op = "assign" /\ ~c.solo
        /\ c.at = "ins" /\ c.faults = {}
        /\ \E a \in assignments :
              a.report_id = c.rid /\ a.moderator_id # c.uid

\* C2: when two assign calls by different moderators pass the check before
\* either inserts, the call whose insert the store rejects ends with Conflict
\* "This report is already assigned to another moderator".
RejectedInsertIsConflict ==
    \A p \in Procs :
        LET c == calls[p] IN
        (/\ c.pc = "done" /\ c.op = "assign"
         /\ c.at = "ins" /\ c.faults = {}
         /\ \E a \in assignments :
               a.report_id = c.rid /\ a.moderator_id # c.uid)
        => c.res = ConflictOther

\* C3: a report whose derived status is completed keeps that status in every
\* later state.
CompletedIsTerminal ==
    [][\A r \in DOMAIN reports :
          derivedStatus(reports[r]) = "completed"
          => derivedStatus(reports'[r]) = "completed"]_vars

\* C4: while moderator A's successful assign of R has not been undone, an
\* assign of R by another moderator ends with Conflict "already assigned to
\* another moderator" and one by A with Conflict "already assigned to you";
\* the Assignment row and the report content stay as they were.
AssignOnAssignedReportConflicts ==
    \A p \in Procs :
        LET c == calls[p] IN
        (/\ c.pc = "done" /\ c.op = "assign" /\ c.faults = {}
         /\ assignedBy[c.rid] # None)
        => /\ c.res = IF c.uid = assignedBy[c.rid]
                      THEN ConflictYours ELSE ConflictOther
           /\ c.wrote \cap {"assignments", "reports"} = {}
           /\ {a \in assignments : a.report_id = c.rid}
                 = {[report_id |-> c.rid, moderator_id |-> assignedBy[c.rid]]}
           /\ reports[c.rid] = c.snap

\* C4 case: an assign by another moderator on an assigned report was refused.
AssignByOtherRefused ==
    \E p \in Procs :
        LET c == calls[p] IN
        /\ c.pc = "done" /\ c.op = "assign" /\ c.faults = {}
        /\ assignedBy[c.rid] \notin {None, c.uid}
        /\ c.res = ConflictOther

\* C5: unassign of R by its owner A succeeds, and an unassign(R, A) that
\* directly follows a successful one ends with Conflict "This report is not
\* assigned to you" and changes no state.
UnassignTwice ==
    \A p \in Procs :
        LET c == calls[p] IN
        (c.pc = "done" /\ c.op = "unassign" /\ c.faults = {})
        => /\ assignedBy[c.rid] = c.uid => c.res = Ok
           /\ last = [rid |-> c.rid, uid |-> c.uid]
              => /\ c.res = ConflictNotYours
                 /\ c.wrote = {}
                 /\ reports[c.rid] = c.snap
                 /\ \A a \in assignments : a.report_id # c.rid

\* C5 case: the second of two consecutive unassign calls was refused.
SecondUnassignRefused ==
    \E p \in Procs :
        LET c == calls[p] IN
        /\ c.pc = "done" /\ c.op = "unassign" /\ c.faults = {}
        /\ last = [rid |-> c.rid, uid |-> c.uid]
        /\ c.res = ConflictNotYours

\* C6 as stated: review of an existing report by an identity that holds no
\* Assignment row for it ends with Conflict "This report is not assigned to
\* you" and changes nothing: content, Assignment rows, moderator records and
\* notifier.
ReviewByNonOwnerChangesNothing ==
    \A p \in Procs :
        LET c == calls[p] IN
        (/\ c.pc = "done" /\ c.op = "review" /\ c.faults = {}
         /\ c.rid \in DOMAIN reports
         /\ ~ \E a \in assignments :
                a.report_id = c.rid /\ a.moderator_id = c.uid)
        => c.res = ConflictNotYours /\ c.wrote = {}

\* C6: review of an existing report by an identity that holds no Assignment
\* row for it ends with Conflict "This report is not assigned to you" at the
\* ownership check, before the notifier; report content and Assignment rows
\* are unchanged, and the only record it may have written is the moderator
\* record of the caller.
ReviewByNonOwnerKeepsReport ==
    \A p \in Procs :
        LET c == calls[p] IN
        (/\ c.pc = "done" /\ c.op = "review" /\ c.faults = {}
         /\ c.rid \in DOMAIN reports
         /\ ~ \E a \in assignments :
                a.report_id = c.rid /\ a.moderator_id = c.uid)
        => /\ c.res = ConflictNotYours
           /\ c.at = "check"
           /\ c.wrote \subseteq {"moderators"}
           /\ reports[c.rid] = c.snap

\* C6 case: a review by a non-owner of a report held by another moderator was
\* refused after the caller's moderator record had been created.
ReviewByNonOwnerRefused ==
    \E p \in Procs :
        LET c == calls[p] IN
        /\ c.pc = "done" /\ c.op = "review" /\ c.faults = {}
        /\ \E a \in assignments :
              a.report_id = c.rid /\ a.moderator_id # c.uid
        /\ c.res = ConflictNotYours
        /\ c.wrote = {"moderators"}

\* C7: when the upload of create succeeded and the insert failed (the only
\* failure of the call), create returns its error with the uploaded blob
\* gone from the bucket and no Report row added.
FailedInsertRemovesBlob ==
    \A p \in Procs :
        LET c == calls[p] IN
        (c.pc = "done" /\ c.op = "create" /\ c.faults = {"insert"})
        => /\ c.path \notin blobs
           /\ "reports" \notin c.wrote
           /\ c.rid \notin DOMAIN reports
           /\ c.res = Unprocessable("Could not save report")

\* C7 case: a create whose insert failed has answered after compensating.
CreateCompensated ==
    \E p \in Procs :
        LET c == calls[p] IN
        /\ c.pc = "done" /\ c.op = "create" /\ c.faults = {"insert"}
        /\ c.at = "c_comp" /\ "blobs" \in c.wrote

\* C8: when the upload of create fails, create ends with the upload error at
\* the upload step: no insert is attempted and no Report row is added.
FailedUploadStopsCreate ==
    \A p \in Procs :
        LET c == calls[p] IN
        (c.pc = "done" /\ c.op = "create" /\ "upload" \in c.faults)
        => /\ c.res = Internal("Failed to upload PDF")
           /\ c.at = "c_upload"
           /\ c.faults = {"upload"}
           /\ c.wrote = {}

\* C8 case: a create has answered with the upload error.
CreateUploadFailed ==
    \E p \in Procs :
        LET c == calls[p] IN
        /\ c.pc = "done" /\ c.op = "create" /\ c.faults = {"upload"}
        /\ c.res = Internal("Failed to upload PDF")

\* C9: when assign inserted the Assignment row and the content update failed
\* (the only failure of the call), the error is surfaced with no Assignment
\* row left for the report and the report content as before the call.
FailedUpdateRemovesAssignment ==
    \A p \in Procs :
        LET c == calls[p] IN
        (c.pc = "done" /\ c.op = "assign" /\ c.faults = {"update"})
        => /\ \A a \in assignments : a.report_id # c.rid
           /\ reports[c.rid] = c.snap
           /\ c.res.kind = "InternalServerError"

\* C9 case: an assign whose update failed has answered after compensating.
AssignCompensated ==
    \E p \in Procs :
        LET c == calls[p] IN
        /\ c.pc = "done" /\ c.op = "assign" /\ c.faults = {"update"}
        /\ c.at = "comp" /\ "assignments" \in c.wrote

\* C10: a create whose attachment is absent or has zero bytes ends with the
\* validation error without an upload or an insert.
EmptyAttachmentRejected ==
    \A p \in Procs :
        LET c == calls[p] IN
        (c.op = "create" /\ c.pdf # "bytes")
        => \/ c.pc = "c_upload"
           \/ /\ c.pc = "done"
              /\ c.res = Unprocessable("A PDF file is required.")
              /\ c.wrote = {}

\* C11: when two overlapping requests both find no moderator record for the
\* same user id and both insert one, the request whose insert hits the
\* duplicate key does not end with an error: the failure is retried as a
\* lookup and the request goes on with the moderator.
DuplicateModeratorInsertRetried ==
    \A p \in Procs :
        LET c == calls[p] IN
        (/\ c.pc = "done" /\ c.at = "modIns" /\ c.faults = {}
         /\ c.uid \in moderators)
        => c.res.kind \notin {"InternalServerError", "StoreError"}

NotifierFailureSwallowed ==
    \A p \in Procs :
        LET c == calls[p] IN
        (c.pc = "done" /\ c.op = "review" /\ "email" \in c.faults)
        => /\ c.res = Ok
           /\ c.at = "email"
           /\ derivedStatus(reports[c.rid]) = "completed"
           /\ c.sent = 1

\* C14 case: a review whose notifier call failed has answered.
ReviewedWithFailedNotifier ==
    \E p \in Procs :
        LET c == calls[p] IN
        /\ c.pc = "done" /\ c.op = "review" /\ c.faults = {"email"}
        /\ c.at = "email"

\* C15: listAvailable() returns no report that has an Assignment row and no
\* report whose derived status is assigned or completed.
AvailableAreUnassignedAndPending ==
    \A p \in Procs :
        LET c == calls[p] IN
        (c.pc = "done" /\ c.op = "listAvailable" /\ c.res = Ok)
        => \A d \in c.listed :
              /\ \A a \in assignments : a.report_id # d.id
              /\ derivedStatus(reports[d.id]) = "pending"

\* C16: listAssignedTo(u) and listCompletedBy(u) for a user id without
\* moderator record return the empty list and write nothing: no moderator
\* record is created.
ListMineForUnknownUserWritesNothing ==
    \A p \in Procs :
        LET c == calls[p] IN
        (/\ c.pc = "done" /\ c.op \in MineOps /\ c.faults = {}
         /\ (c.uid \notin moderators \/ "moderators" \in c.wrote))
        => /\ c.res = Ok
           /\ c.listed = {}
           /\ c.wrote = {}

\* C17: after every successful create, whatever the seed (a seed with a
\* pdf_storage_path of its own included), findById of the returned report id
\* yields a report whose content.pdf_storage_path is the path create returned.
CreatedReportPointsToBlob ==
    \A p \in Procs :
        LET c == calls[p] IN
        (c.pc = "done" /\ c.op = "create" /\ c.res = Ok)
        => /\ findById(reports, c.rid) # {}
           /\ \A report \in findById(reports, c.rid) :
                 report.pdf_storage_path = c.path

\* C17 case: a create whose seed carried a pdf_storage_path has succeeded.
CreatedFromSeedWithPath ==
    \E p \in Procs :
        LET c == calls[p] IN
        /\ c.pc = "done" /\ c.op = "create" /\ c.res = Ok
        /\ c.seed.pdf_storage_path = "seedpath"

\* C18: every projection returned by a list operation carries a status that
\* is pending, assigned or completed and is determined by the content alone:
\* content.status when that is one of the three values, pending when it is
\* missing, empty or unknown, whether or not the report has an Assignment
\* row and whoever asks.
ProjectedStatusFollowsContent ==
    \A p \in Procs :
        LET c == calls[p] IN
        (c.pc = "done" /\ c.res = Ok
         /\ c.op \in {"listAll", "listAvailable", "listAssigned", "listCompleted"})
        => \A d \in c.listed :
              /\ d.status \in {"pending", "assigned", "completed"}
              /\ d.status = IF reports[d.id].status
                                \in {"pending", "assigned", "completed"}
                            THEN reports[d.id].status
                            ELSE "pending"

\* C18 case: listAll has projected a report with an unknown status and an
\* Assignment row as pending.
UnknownStatusListedAsPending ==
    \E p \in Procs :
        LET c == calls[p] IN
        /\ c.pc = "done" /\ c.op = "listAll" /\ c.res = Ok
        /\ \E d \in c.listed :
              /\ reports[d.id].status = "archived"
              /\ d.status = "pending"
              /\ \E a \in assignments : a.report_id = d.id

\* C19: a request that ends because a collaborator call failed (upload, store
\* query, insert) surfaces an error kind that is none of the kinds used for
\* caller faults (validation, conflict, not found); in particular create's
\* failed insert differs in kind from its missing attachment.
CollaboratorFailureKindDiffers ==
    \A p \in Procs :
        LET c == calls[p] IN
        (c.pc = "done" /\ c.faults \ {"email"} # {})
        => c.res.kind \notin {"UnprocessableEntity", "Conflict", "NotFound"}

\* C20: a NotFound or Conflict raised inside assign, unassign or review
\* reaches the caller as that kind with its message: the missing report as
\* NotFound, the failed assignment check of assign as one of its two
\* Conflicts, the failed ownership check of unassign and review as Conflict
\* "This report is not assigned to you".
DomainErrorsReachCaller ==
    \A p \in Procs :
        LET c == calls[p] IN
        (/\ c.pc = "done" /\ c.op \in {"assign", "unassign", "review"}
         /\ c.faults = {})
        => /\ c.at = "load" => c.res = NotFound
           /\ (c.at = "check" /\ c.op = "assign")
              => c.res \in {ConflictOther, ConflictYours}
           /\ (c.at = "check" /\ c.op # "assign")
              => c.res = ConflictNotYours

\* C20 case: an unassign of a report that does not exist was answered with
\* NotFound.
UnassignOfMissingReport ==
    \E p \in Procs :
        LET c == calls[p] IN
        /\ c.pc = "done" /\ c.op = "unassign" /\ c.faults = {}
        /\ c.at = "load" /\ c.rid \notin DOMAIN reports
        /\ c.res.kind = "NotFound"

\* C21: unassign(R, X) succeeds only if an Assignment row binding R to X's
\* moderator was found; right after a successful unassign no Assignment row
\* for R exists, R's derived status is pending, and listAvailable() returns R
\* with assignedTo and assignedAt absent.
UnassignedReportIsAvailable ==
    \A p \in Procs :
        LET c == calls[p] IN
        (c.pc = "done" /\ c.op = "unassign" /\ c.res = Ok)
        => /\ c.rows = {[report_id |-> c.rid, moderator_id |-> c.uid]}
           /\ \A a \in assignments : a.report_id # c.rid
           /\ derivedStatus(reports[c.rid]) = "pending"
           /\ \E d \in listAvailable :
                 /\ d.id = c.rid /\ d.status = "pending"
                 /\ d.assignedTo = Absent /\ d.assignedAt = Absent

\* C21 case: the owner's unassign of an assigned report has succeeded.
UnassignedByOwner ==
    \E p \in Procs :
        LET c == calls[p] IN
        /\ c.pc = "done" /\ c.op = "unassign" /\ c.res = Ok
        /\ c.snap.status = "assigned" /\ c.snap.assigned_to = c.uid
        /\ "assignments" \in c.wrote /\ "reports" \in c.wrote

\* C22: whenever the Assignment row of a report and its content.assigned_to
\* disagree, the read projections show the owner of the row: every report
\* returned by listAssignedTo(u) or listCompletedBy(u) has assignedTo equal
\* to u, in every state reachable by interleaved assign and unassign calls.
ListedMineShowRowOwner ==
    \A u \in Users :
        \A d \in listAssignedTo(u) \cup listCompletedBy(u) : d.assignedTo = u

\* C23: for every combination of institutionId, numerRspo and
\* reportedInstitution given or missing (an empty string counts as missing),
\* a successful create returns and stores as institution id the first given
\* one in that order, none when all are missing, and the first segment of the
\* blob path is institutionId if given, else numerRspo if given, else
\* "unassigned".
CreateResolvesInstitution ==
    \A p \in Procs :
        LET c == calls[p]
            i == c.dto.institutionId
            n == c.dto.numerRspo
            r == c.dto.reportedInstitution
            given(v) == v \notin {Absent, ""}
        IN
        (c.pc = "done" /\ c.op = "create" /\ c.res = Ok)
        => /\ given(i) => c.institutionId = i
           /\ (~given(i) /\ given(n)) => c.institutionId = n
           /\ (~given(i) /\ ~given(n) /\ given(r)) => c.institutionId = r
           /\ (~given(i) /\ ~given(n) /\ ~given(r)) => c.institutionId = Absent
           /\ columns[c.rid].institution_id = c.institutionId
           /\ c.path \in blobs
           /\ \E k \in 1..NumReports :
                 c.path = pathIn(IF given(i) THEN i
                                 ELSE IF given(n) THEN n
                                 ELSE "unassigned", AllPaths[k])

\* C23 case: a create without institutionId, with numerRspo and
\* reportedInstitution, has succeeded.
CreatedWithRegistryNumber ==
    \E p \in Procs :
        LET c == calls[p] IN
        /\ c.pc = "done" /\ c.op = "create" /\ c.res = Ok
        /\ c.dto = [institutionId |-> Absent, numerRspo |-> "123456",
                    reportedInstitution |-> "Some Institution"]
        /\ columns[c.rid].institution_id = "123456"

\* C24: assign(R, X) for a report id R that does not exist ends with NotFound
\* at the load of the report, before the moderator is resolved: the call
\* creates no moderator record and no Assignment row.
AssignOfMissingReportIsNotFound ==
    \A p \in Procs :
        LET c == calls[p] IN
        (/\ c.pc = "done" /\ c.op = "assign" /\ c.faults = {}
         /\ c.rid \notin DOMAIN reports)
        => /\ c.res = NotFound
           /\ c.at = "load"
           /\ c.wrote = {}
           /\ \A a \in assignments : a.report_id # c.rid

\* C24 case: an assign of a missing report by a user without moderator record
\* was answered with NotFound.
AssignOfMissingReportByNewUser ==
    \E p \in Procs :
        LET c == calls[p] IN
        /\ c.pc = "done" /\ c.op = "assign" /\ c.faults = {}
        /\ c.rid \notin DOMAIN reports /\ c.uid \notin moderators
        /\ c.res = NotFound

\* C25: every successful assign, unassign or review that ran with no other
\* request in flight leaves the id of the report, its columns outside the
\* content and every content key the transition does not set as they were
\* before the call.
WorkflowTransitionsKeepFrame ==
    /\ [](\A p \in Procs :
            LET c == calls[p]
                written ==
                    IF c.op = "review"
                    THEN {"status", "completed_at", "review_notes",
                          "findings", "comparisonNotes"}
                    ELSE {"status", "assigned_to", "assigned_at"}
            IN
            (/\ c.pc = "done" /\ c.op \in {"assign", "unassign", "review"}
             /\ c.res = Ok /\ c.solo)
            => /\ c.rid \in DOMAIN reports
               /\ DOMAIN reports[c.rid] = DOMAIN c.snap
               /\ \A key \in DOMAIN c.snap \ written :
                     reports[c.rid][key] = c.snap[key])
    /\ [][\A r \in DOMAIN columns :
             r \in DOMAIN columns' /\ columns'[r] = columns[r]]_vars

\* C25 case: an assign has succeeded on a report that was created with a
\* registry number and a reported institution.
AssignedReportWithInstitution ==
    \E p \in Procs :
        LET c == calls[p] IN
        /\ c.pc = "done" /\ c.op = "assign" /\ c.res = Ok /\ c.solo
        /\ c.snap.numer_rspo = "123456"
        /\ columns[c.rid].reported_institution = "Some Institution"
        /\ reports[c.rid].numer_rspo = "123456"

\* C27: a successful review stores as review_notes the first of the
\* payload's comparisonNotes and legacy reviewNotes that is not empty after
\* trimming (trimmed; null when both are empty), and for findings and
\* comparisonNotes stores the payload value when the payload carries one and
\* otherwise keeps the value stored before the call.
ReviewStoresNotesAndFindings ==
    \A p \in Procs :
        LET c == calls[p]
            cn == c.payload.comparisonNotes
            ln == c.payload.reviewNotes
            fs == c.payload.findings
            blank(v) == trim(v) \in {Absent, ""}
            supplied(v) == v \notin {Absent, ""}
            stored == reports[c.rid]
        IN
        (c.pc = "done" /\ c.op = "review" /\ c.res = Ok)
        => /\ stored.review_notes =
                 IF ~blank(cn) THEN trim(cn)
                 ELSE IF ~blank(ln) THEN trim(ln)
                 ELSE Null
           /\ stored.findings = IF supplied(fs) THEN fs ELSE c.snap.findings
           /\ stored.comparisonNotes =
                 IF supplied(cn) THEN cn ELSE c.snap.comparisonNotes

\* C27 case: a review whose payload has only legacy notes has succeeded on a
\* report with stored findings and comparisonNotes.
ReviewedWithLegacyNotesOnly ==
    \E p \in Procs :
        LET c == calls[p] IN
        /\ c.pc = "done" /\ c.op = "review" /\ c.res = Ok
        /\ c.payload = [comparisonNotes |-> " ", findings |-> Absent,
                        reviewNotes |-> "legacy"]
        /\ c.snap.findings = "[f0]" /\ c.snap.comparisonNotes = "old"
        /\ reports[c.rid].review_notes = "legacy"

\* C26: there is an interleaving of a review and an unassign of the same
\* report by its owner in which both return success and the content written
\* by one overwrites the merge of the other.  The content update of assign,
\* unassign and review stores the document built from the content the
\* request read at its start, whatever has been written since.
UpdateWritesOwnSnapshot ==
    [][\A p \in Procs :
          LET c == calls[p]
              d == calls'[p]
          IN
          (/\ c.op \in {"assign", "unassign", "review"}
           /\ c.pc = "upd" /\ d.pc # "upd" /\ d.faults = c.faults)
          => reports'[c.rid] =
                IF c.op = "assign" THEN AssignedContent(c.snap, c.uid)
                ELSE IF c.op = "unassign" THEN UnassignedContent(c.snap)
                ELSE ReviewedContent(c.snap, d.payload)]_vars

\* C26 case: a review returns success right after the unassign of the same
\* report by the same moderator was answered with success, and the stored
\* content has status pending and nothing of the review.
ReviewOverwrittenByUnassign ==
    \E p \in Procs :
        LET c == calls[p] IN
        /\ c.pc = "done" /\ c.op = "review" /\ c.res = Ok /\ c.faults = {}
        /\ last = [rid |-> c.rid, uid |-> c.uid]
        /\ reports[c.rid].status = "pending"
        /\ reports[c.rid].completed_at = Absent
        /\ reports[c.rid].review_notes = Absent

\* C28 as stated: in the response projections a created, assigned or
\* completed timestamp whose stored value is absent or unparseable is
\* projected as the current time, never as absent or null and never as an
\* error.
ProjectedDatesFallBackToNow ==
    \A p \in Procs :
        LET c == calls[p]
            bad(v) == v \in {Absent, Null, "", "not-a-date"}
        IN
        (/\ c.pc = "done" /\ c.faults = {}
         /\ c.op \in {"listAll", "listAvailable", "listAssigned", "listCompleted"})
        => /\ c.res = Ok
           /\ \A d \in c.listed :
                 /\ bad(columns[d.id].created_at) => d.createdAt = Now
                 /\ bad(reports[d.id].assigned_at) => d.assignedAt = Now
                 /\ bad(reports[d.id].completed_at) => d.completedAt = Now

\* C28: in the response projections no stored timestamp leads to an error.
\* A created timestamp whose stored value is absent or unparseable is
\* projected as the current time; an assigned or completed timestamp whose
\* stored value is absent or unparseable is projected as absent (the
\* assigned timestamp of a report listed through its Assignment row as the
\* timestamp of that row); every other value is projected in canonical
\* form.  The moderator projection replaces an absent or unparseable created
\* timestamp by the current time.
ProjectedDatesAreLenient ==
    LET bad(v) == v \in {Absent, Null, "", "not-a-date"}
        canonical(v) ==
            IF v = "2024-01-15" THEN "2024-01-15T00:00:00.000Z" ELSE v
    IN
    /\ \A p \in Procs :
          LET c == calls[p] IN
          (/\ c.pc = "done" /\ c.faults = {}
           /\ c.op \in {"listAll", "listAvailable", "listAssigned",
                        "listCompleted"})
          => /\ c.res = Ok
             /\ \A d \in c.listed :
                   /\ d.createdAt =
                         IF bad(columns[d.id].created_at) THEN Now
                         ELSE canonical(columns[d.id].created_at)
                   /\ d.completedAt =
                         IF bad(reports[d.id].completed_at) THEN Absent
                         ELSE canonical(reports[d.id].completed_at)
                   /\ d.assignedAt =
                         IF ~bad(reports[d.id].assigned_at)
                         THEN canonical(reports[d.id].assigned_at)
                         ELSE IF c.op \in MineOps THEN Ts
                         ELSE Absent
    /\ \A v \in {Absent, Null, "", "not-a-date", "2024-01-15", Ts} :
          moderatorCreatedAt(v) = IF bad(v) THEN Now ELSE canonical(v)

\* C28 case: listAll has projected a report whose created_at and completed_at
\* cannot be parsed.
ListedReportWithBadDates ==
    \E p \in Procs :
        LET c == calls[p] IN
        /\ c.pc = "done" /\ c.op = "listAll" /\ c.res = Ok
        /\ \E d \in c.listed :
              /\ columns[d.id].created_at = "not-a-date"
              /\ reports[d.id].completed_at = "not-a-date"
              /\ d.createdAt = Now /\ d.completedAt = Absent

\* C29: under any interleaving of assign and unassign calls on the same
\* report, every Assignment row that the delete of unassign or the
\* compensating delete of assign removes is bound to the moderator of the
\* calling request.
DeleteRemovesOnlyOwnRow ==
    [][\A a \in assignments \ assignments' :
          \E p \in Procs :
              /\ calls[p].op \in {"assign", "unassign"}
              /\ calls[p].pc \in {"del", "comp"}
              /\ calls'[p].pc # calls[p].pc
              /\ calls[p].rid = a.report_id
              /\ calls[p].uid = a.moderator_id]_vars

\* C30: in every state with no operation in flight, states reached after a
\* store failure of an individual step or after interleaved calls included,
\* an Assignment row binding report R to moderator M exists if and only if
\* the content of R has status assigned or completed with assigned_to equal
\* to M.
AssignmentRowsMirrorContent ==
    (\A p \in Procs : calls[p].pc = "idle")
    => \A r \in DOMAIN reports, m \in Users :
          ([report_id |-> r, moderator_id |-> m] \in assignments)
          <=> /\ reports[r].status \in {"assigned", "completed"}
              /\ reports[r].assigned_to = m

\* C31: in every state with no operation in flight, every stored report is
\* returned by listAvailable() or by listAssignedTo(u) or listCompletedBy(u)
\* for some identity u: no sequence of operations and step failures makes a
\* report unreachable from all work lists.
EveryReportIsOnSomeWorkList ==
    (\A p \in Procs : calls[p].pc = "idle")
    => \A r \in DOMAIN reports :
          \/ \E d \in listAvailable : d.id = r
          \/ \E u \in Users :
                \E d \in listAssignedTo(u) \cup listCompletedBy(u) : d.id = r

\* C32: immediately after a successful create, for every caller-supplied
\* content seed (seeds that contain status, assigned_to or assigned_at keys
\* included), the new report has derived status pending, no assignedTo, and
\* is returned by listAvailable().
CreatedFromAnySeedIsPendingAndAvailable ==
    \A p \in Procs :
        LET c == calls[p] IN
        (c.pc = "done" /\ c.op = "create" /\ c.res = Ok)
        => /\ derivedStatus(reports[c.rid]) = "pending"
           /\ projectedAssignedTo(reports[c.rid], None) = Absent
           /\ \E d \in listAvailable : d.id = c.rid

\* C33: if review(R, X, payload) surfaces an error of any kind to the
\* caller, the content of R is the same as before the call: review never
\* reports failure after having marked the report completed.
FailedReviewLeavesContent ==
    \A p \in Procs :
        LET c == calls[p] IN
        (c.pc = "done" /\ c.op = "review" /\ c.res.kind # "Ok")
        => "reports" \notin c.wrote

\* C34: if unassign(R, X) surfaces an error to the caller, the Assignment
\* row for R is the same as before the call: a failed unassign does not
\* release the report.
FailedUnassignLeavesAssignment ==
    \A p \in Procs :
        LET c == calls[p] IN
        (c.pc = "done" /\ c.op = "unassign" /\ c.res.kind # "Ok")
        => "assignments" \notin c.wrote

\* C35: over any sequence of assign, unassign and review calls, the notifier
\* is invoked at most once per report: a request invokes it only for a
\* report for which it has not been invoked before.
NotifierInvokedOncePerReport ==
    [][\A p \in Procs :
          calls'[p].sent > calls[p].sent => calls[p].rid \notin notified]_vars

\* C36: in every reachable state the content.pdf_storage_path of every
\* stored report names a blob that exists in the blob store: the insert is
\* attempted only after the upload succeeded, and the only blob deletion
\* issued targets the path of a create call whose insert failed.
StoredReportsPointToBlobs ==
    /\ [](\A r \in DOMAIN reports : reports[r].pdf_storage_path \in blobs)
    /\ [](\A p \in Procs :
             (calls[p].op = "create" /\ calls[p].pc = "c_insert")
             => calls[p].path \in blobs /\ "upload" \notin calls[p].faults)
    /\ [][\A b \in blobs \ blobs' :
             \E p \in Procs :
                 /\ calls[p].op = "create" /\ calls[p].pc = "c_comp"
                 /\ "insert" \in calls[p].faults
                 /\ calls[p].path = b
                 /\ calls'[p].pc = "done"]_vars

\* C36 case: a create has uploaded its blob and stored its report.
CreatedWithUploadedBlob ==
    \E p \in Procs :
        LET c == calls[p] IN
        /\ c.pc = "done" /\ c.op = "create" /\ c.res = Ok
        /\ "blobs" \in c.wrote /\ "reports" \in c.wrote
        /\ reports[c.rid].pdf_storage_path \in blobs

\* C37: after any sequence of assign, unassign, review and
\* ModeratorsService.delete calls, the moderator id of every Assignment row
\* refers to an existing moderator record.
AssignmentsReferToModerators ==
    (\A p \in Procs : calls[p].pc = "idle")
    => \A a \in assignments : a.moderator_id \in moderators

\* C38: content.pdf_storage_path, once stored by create, is never changed or
\* removed by any sequence or interleaving of assign, unassign and review
\* calls on that report.
PathIsNeverChanged ==
    [][\A r \in DOMAIN reports :
          /\ r \in DOMAIN reports'
          /\ reports'[r].pdf_storage_path = reports[r].pdf_storage_path]_vars

\* C38 case: a review that overlapped another request has written the
\* content of a report that was unassigned or assigned before, and the
\* report still carries the path create gave it.
ReviewedAfterOverlapKeepsPath ==
    \E p \in Procs :
        LET c == calls[p] IN
        /\ c.pc = "done" /\ c.op = "review" /\ c.res = Ok /\ ~c.solo
        /\ "reports" \in c.wrote
        /\ c.snap.status = "assigned"
        /\ reports[c.rid].pdf_storage_path = c.snap.pdf_storage_path
        /\ reports[c.rid].pdf_storage_path \in blobs

====
